---- MODULE Spec2Model ----
(***************************************************************************)
(* FinTrackr backend: the token lifecycle (register, login, refresh,       *)
(* logout, Google sign-in), the authentication middleware and the          *)
(* protected user handlers, over the Prisma user / refreshToken tables and *)
(* the Redis refresh-token keys.                                           *)
(*                                                                         *)
(* The repository holds four drafts of the auth controller; `variant`      *)
(* selects the deployed one:                                               *)
(*   "cache"       src/controllers/authController.ts 1-213   (Redis)       *)
(*   "durable"     unnamed/part_009 1-300       (refreshToken table)       *)
(*   "durableNext" src/controllers/userController.ts 534-1150 (same table, *)
(*                 errors forwarded with next(error))                      *)
(*   "stateless"   unnamed/part_009 302-489     (no storage)               *)
(*                                                                         *)
(* `attach` is the request field the deployed authenticate middleware sets: *)
(* "user" as in middleware/auth.ts, or "authUser", the field the handlers  *)
(* of userController read.                                                 *)
(*                                                                         *)
(* A request is a sequence of steps, one per awaited store call: Node runs *)
(* the code between two awaits without interruption, and the steps of      *)
(* concurrent requests interleave freely.  The first step of a handler is  *)
(* taken when the request arrives.  Tokens are signed in the step that     *)
(* issues the store write they are stored by.  The clock counts seconds;   *)
(* the lifetimes are scaled down, keeping their order.                     *)
(*                                                                         *)
(* A store call of register, login, refresh, logout and of the middleware  *)
(* either answers or throws because its server cannot be reached; the      *)
(* request then carries the mark "outage".                                 *)
(***************************************************************************)
EXTENDS Integers, FiniteSets, TLC

\* ------------------------------------------------------------------ bounds
MaxTime == 2
MaxRequests == 3
MaxUsers == 2

Slots == {1, 2}
Emails == {"a@x.io", "b@x.io"}
RawEmails == Emails \cup {"A@x.io"}
Passwords == {"password1", "password2"}
NewPasswords == {"password1"}
GoogleIds == {"g-1", "g-2"}
Variants == {"cache", "durable", "durableNext", "stateless"}

\* authenticate sets req.user; the handlers of userController read req.authUser,
\* a field their AuthenticatedRequest must declare and no middleware in the
\* source sets: the gate they were written against sets that one
GateFields == {"user", "authUser"}

\* the field getProfile, updateProfile and deleteAccount read the caller from
HandlerField == "authUser"

\* --------------------------------------------------------- configuration
JWT_EXPIRES_IN == 1
JWT_REFRESH_EXPIRES_IN == 2
StoreTtl == 2

VARIABLES
  variant,     \* which draft of the auth controller is deployed
  attach,      \* the request field the deployed authenticate sets
  alive,       \* FALSE once the process has exited
  now,         \* the clock, in seconds
  users,       \* prisma.user: id -> row
  nextId,      \* the next fresh user id (ids are never reused)
  redis,       \* refresh_token:<userId> -> [token, expAt]
  dbTokens,    \* prisma.refreshToken: set of rows
  slots,       \* the requests in flight, one per worker
  last,        \* the last request answered, with its response
  nreq,        \* requests started so far
  issued,      \* history: every token a response has carried
  rotated,     \* history: refresh tokens a successful refresh has consumed
  revoked,     \* history: refresh tokens issued before the subject's last logout
  registered,  \* history: [email, password, uid] of every successful register
  linked       \* history: provider id -> the user it was first resolved to, 0 for none

vars == <<variant, attach, alive, now, users, nextId, redis, dbTokens, slots, last, nreq,
          issued, rotated, revoked, registered, linked>>

\* ------------------------------------------------------------ token codec
NoToken == [userId |-> 0, email |-> "", type |-> "none", iat |-> 0, exp |-> 0, key |-> "none"]

\* a token not signed with either secret of the server
Forged == [userId |-> 1, email |-> "a@x.io", type |-> "refresh", iat |-> 0, exp |-> 9, key |-> "attacker"]

\* the access token signed with the refresh secret
generateAccessTokenWrongSecret(uid, email) ==
  [userId |-> uid, email |-> email, type |-> "access", iat |-> now,
   exp |-> now + JWT_EXPIRES_IN, key |-> "JWT_REFRESH_SECRET"]

\* jwt.sign: the string is a function of the payload, iat, exp and the secret
generateAccessToken(uid, email) ==
  [userId |-> uid, email |-> email, type |-> "access", iat |-> now,
   exp |-> now + JWT_EXPIRES_IN, key |-> "JWT_SECRET"]

generateRefreshToken(uid, email) ==
  [userId |-> uid, email |-> email, type |-> "refresh", iat |-> now,
   exp |-> now + JWT_REFRESH_EXPIRES_IN, key |-> "JWT_REFRESH_SECRET"]

\* jwt.verify: signature first, then expiry; "ok" or the error it throws
JwtVerify(tok, secret) ==
  IF tok.key # secret THEN "invalid signature"
  ELSE IF now >= tok.exp THEN "jwt expired"
  ELSE "ok"

verifyAccessToken(tok) == JwtVerify(tok, "JWT_SECRET")

verifyRefreshToken(tok) == JwtVerify(tok, "JWT_REFRESH_SECRET")

\* ------------------------------------------------------ credential hashes
NoHash == [bcrypt |-> ""]

hashPassword(p) == [bcrypt |-> p]

comparePassword(p, h) == h = hashPassword(p)

\* --------------------------------------------------------- identity store
FindByEmail(e) ==
  IF \E id \in DOMAIN users : users[id].email = e
  THEN CHOOSE id \in DOMAIN users : users[id].email = e
  ELSE 0

FindByGoogleId(g) ==
  IF \E id \in DOMAIN users : users[id].googleId = g
  THEN CHOOSE id \in DOMAIN users : users[id].googleId = g
  ELSE 0

\* the unique indexes on user.email and user.googleId
UniqueViolation(id, e, g) ==
  \E o \in DOMAIN users \ {id} :
     \/ users[o].email = e
     \/ (g # "" /\ users[o].googleId = g)

\* a create that drops the password hash
UserCreateNoHash(id, e, h, g) ==
  [o \in DOMAIN users \cup {id} |->
     IF o = id THEN [email |-> e, passwordHash |-> NoHash, googleId |-> g] ELSE users[o]]

\* a create that drops the provider id
UserCreateNoLink(id, e, h, g) ==
  [o \in DOMAIN users \cup {id} |->
     IF o = id THEN [email |-> e, passwordHash |-> h, googleId |-> ""] ELSE users[o]]

UserCreate(id, e, h, g) ==
  [o \in DOMAIN users \cup {id} |->
     IF o = id THEN [email |-> e, passwordHash |-> h, googleId |-> g] ELSE users[o]]

\* a link that also resets the password hash
UserLinkDropsHash(id, g) == [users EXCEPT ![id].googleId = g, ![id].passwordHash = NoHash]

\* prisma.user.update({where: {id}, data: {googleId}})
UserLink(id, g) == [users EXCEPT ![id].googleId = g]

UserDelete(id) == [o \in DOMAIN users \ {id} |-> users[o]]

\* ------------------------------------------------------------ token stores
NoEntry == [token |-> NoToken, expAt |-> 0]

\* redisClient.get: a key past its TTL is gone
RedisGet(uid) ==
  IF redis[uid].token # NoToken /\ now < redis[uid].expAt THEN redis[uid].token ELSE NoToken

\* redisClient.setEx(key, 7 days, token)
RedisSetEx(uid, tok) == [redis EXCEPT ![uid] = [token |-> tok, expAt |-> now + StoreTtl]]

RedisDel(uid) == [redis EXCEPT ![uid] = NoEntry]

FreshRowId == CHOOSE k \in 1..(Cardinality(dbTokens) + 1) : \A r \in dbTokens : r.id # k

\* prisma.refreshToken.create({userId, token, expiresAt}): expiresAt is taken
\* from the clock right after the pair is signed, seven days ahead
TokenCreate(uid, tok) ==
  dbTokens \cup {[id |-> FreshRowId, userId |-> uid, token |-> tok, expiresAt |-> tok.iat + StoreTtl]}

\* prisma.refreshToken.deleteMany({where: {userId}})
TokenDeleteMany(uid) == {r \in dbTokens : r.userId # uid}

\* prisma.refreshToken.findFirst({userId, token, expiresAt > now})
TokenFindFirst(uid, tok) ==
  \E r \in dbTokens : r.userId = uid /\ r.token = tok /\ r.expiresAt > now

\* the live refresh records the store holds for a subject
LiveRecords(uid) ==
  IF variant = "cache"
  THEN IF RedisGet(uid) # NoToken THEN {RedisGet(uid)} ELSE {}
  ELSE {r \in dbTokens : r.userId = uid /\ r.expiresAt > now}

\* every draft taken to keep a store
StatefulAlways == TRUE

Stateful == variant # "stateless"

Durable == variant \in {"durable", "durableNext"}

\* --------------------------------------------------------------- requests
\* A request: its input (op, email, password, gid, hdr, tok), the handler's
\* locals (uid, uemail: the user it resolved; at, rt: the token pair it signed),
\* its response (status, body; at, rt when the response carries them) and
\* history: pre (what held of the input when the request arrived), why, invoked
\* (calls of next() by the middleware), gate (the status the middleware itself
\* sent, 0 when it sent none), peer (0: no request with the same input
\* overlapped this one, 1: one is in flight, 2: it was lost, else its status).
Idle ==
  [op |-> "idle", pc |-> "idle", email |-> "", password |-> "",
   gid |-> "", hdr |-> "none", tok |-> NoToken, uid |-> 0, uemail |-> "",
   invoked |-> 0, gate |-> 0, at |-> NoToken, rt |-> NoToken, status |-> 0, body |-> "",
   why |-> "", pre |-> {}, peer |-> 0, was |-> 0]

InFlight(k) == slots[k].pc # "idle"

\* a request is taken by the first free worker
CanStart(i) ==
  /\ alive
  /\ ~InFlight(i)
  /\ \A k \in Slots : k < i => InFlight(k)
  /\ nreq < MaxRequests

SameInput(a, b) == a.op = b.op /\ a.email = b.email /\ a.gid = b.gid /\ a.tok = b.tok

HasPeer(i, r) == \E k \in Slots \ {i} : InFlight(k) /\ SameInput(slots[k], r)

NewReq(i, op, e, p, g, hdr, tok) ==
  LET r == [Idle EXCEPT !.op = op, !.pc = "start", !.email = e, !.password = p,
                        !.gid = g, !.hdr = hdr, !.tok = tok]
  IN [r EXCEPT !.peer = IF HasPeer(i, r) THEN 1 ELSE 0]

\* the other workers, told what became of request r
Mark(i, r, s) ==
  [k \in Slots |->
     IF k # i /\ InFlight(k) /\ SameInput(slots[k], r)
     THEN [slots[k] EXCEPT !.peer = s] ELSE slots[k]]

\* the arriving request r awaits its next store call
Proceed(i, r) ==
  /\ slots' = [Mark(i, r, 1) EXCEPT ![i] = r]
  /\ last' = last

\* the request in flight on worker i awaits its next store call
Step(i, r) ==
  /\ slots' = [slots EXCEPT ![i] = r]
  /\ last' = last

\* the response r is sent
Reply(i, r) ==
  /\ slots' = [Mark(i, r, r.status) EXCEPT ![i] = Idle]
  /\ last' = r

\* res.status(status).json({error | message: body})
Respond(r, status, body) ==
  [r EXCEPT !.pc = "done", !.status = status, !.body = body, !.at = NoToken, !.rt = NoToken]

\* res.status(status).json({message, ...tokens})
RespondTokens(r, status, body) == [r EXCEPT !.pc = "done", !.status = status, !.body = body]

\* errorHandler: Prisma known request errors by code, any other error 500 with its message
ErrorStatus(err) ==
  CASE err = "P2002" -> 409
    [] err = "P2025" -> 404
    [] err = "P2003" -> 400
    [] OTHER -> 500

ErrorMessage(err) ==
  CASE err = "P2002" -> "A record with this information already exists"
    [] err = "P2025" -> "Record not found"
    [] err = "P2003" -> "Invalid reference to related record"
    [] OTHER -> err

errorHandler(r, err) == Respond(r, ErrorStatus(err), ErrorMessage(err))

\* next(error)
NextError(i, r, err) ==
  /\ Reply(i, errorHandler(r, err))
  /\ alive' = alive

\* `throw error` out of an async handler: Express 5 forwards the rejected promise
\* to the error handler; Express 4 leaves it unhandled, and the process's
\* unhandledRejection hook exits. The Express version is not pinned in the source.
AsyncThrow(i, r, err) ==
  \/ /\ Reply(i, errorHandler(r, err))
     /\ alive' = alive
  \/ /\ slots' = [Mark(i, r, 2) EXCEPT ![i] = Idle]
     /\ last' = [r EXCEPT !.pc = "lost", !.at = NoToken, !.rt = NoToken]
     /\ alive' = FALSE

\* the catch block of register and login: throw error, or next(error)
Rethrow(i, r, err) ==
  IF variant \in {"cache", "durable"} THEN AsyncThrow(i, r, err) ELSE NextError(i, r, err)

\* the error a store call throws when Postgres or Redis cannot be reached
StoreDown == "Can't reach database server"

\* request r, one of whose store calls has thrown StoreDown
Outage(r) == [r EXCEPT !.pre = r.pre \cup {"outage"}]

\* generateTokenPair, kept in the request until the response carries it
WithTokens(r, uid, email) ==
  [r EXCEPT !.uid = uid, !.uemail = email,
            !.at = generateAccessToken(uid, email), !.rt = generateRefreshToken(uid, email)]

\* the refresh tokens a subject has been handed so far
TokensOf(uid) == {t \in issued : t.type = "refresh" /\ t.userId = uid}

\* a register or login that answers without writing the refresh token
StorePutSkipped(uid, rt) == UNCHANGED <<redis, dbTokens>>

\* the refresh token is written: redis setEx, or refreshToken.create
StorePut(uid, rt) ==
  IF variant = "cache"
  THEN redis' = RedisSetEx(uid, rt) /\ dbTokens' = dbTokens
  ELSE dbTokens' = TokenCreate(uid, rt) /\ redis' = redis

\* refreshToken.userId references user.id
ForeignKeyViolation(uid) == Durable /\ uid \notin DOMAIN users

Init ==
  /\ variant \in Variants
  /\ attach \in GateFields
  /\ alive = TRUE
  /\ now = 0
  /\ users = [id \in {} |-> 0]
  /\ nextId = 1
  /\ redis = [id \in 1..MaxUsers |-> NoEntry]
  /\ dbTokens = {}
  /\ slots = [i \in Slots |-> Idle]
  /\ last = Idle
  /\ nreq = 0
  /\ issued = {}
  /\ rotated = {}
  /\ revoked = {}
  /\ registered = {}
  /\ linked = [g \in GoogleIds |-> 0]

Tick ==
  /\ alive
  /\ now < MaxTime
  /\ now' = now + 1
  /\ UNCHANGED <<variant, attach, alive, users, nextId, redis, dbTokens, slots, last, nreq,
                 issued, rotated, revoked, registered, linked>>

\* ---------------------------------------------------------------- register
\* findUnique({email}); 409 when the email is taken
RegisterFind(i, e, p) ==
  /\ CanStart(i)
  /\ nreq' = nreq + 1
  /\ LET r == [NewReq(i, "register", e, p, "", "none", NoToken) EXCEPT
                  !.pre = {t \in {"taken"} : FindByEmail(e) # 0}]
     IN \/ /\ IF FindByEmail(e) # 0
              THEN Reply(i, Respond(r, 409, "User already exists with this email"))
              ELSE Proceed(i, [r EXCEPT !.pc = "reg_create"])
           /\ alive' = alive
        \/ Rethrow(i, Outage(r), StoreDown)
  /\ UNCHANGED <<variant, attach, now, users, nextId, redis, dbTokens,
                 issued, rotated, revoked, registered, linked>>

\* user.create({email, passwordHash, name}), then generateTokenPair
RegisterCreate(i) ==
  /\ alive
  /\ slots[i].pc = "reg_create"
  /\ LET r == slots[i] IN
       \/ /\ Rethrow(i, Outage(r), StoreDown)
          /\ UNCHANGED <<users, nextId, issued, registered>>
       \/ IF UniqueViolation(0, r.email, "")
          THEN /\ Rethrow(i, [r EXCEPT !.pre = {"taken"}], "P2002")
               /\ UNCHANGED <<users, nextId, issued, registered>>
          ELSE /\ nextId <= MaxUsers
               /\ users' = UserCreate(nextId, r.email, hashPassword(r.password), "")
               /\ nextId' = nextId + 1
               /\ alive' = alive
               /\ LET t == WithTokens(r, nextId, r.email) IN
                    IF Stateful
                    THEN /\ Step(i, [t EXCEPT !.pc = "reg_store"])
                         /\ UNCHANGED <<issued, registered>>
                    ELSE /\ Reply(i, RespondTokens(t, 201, "User registered successfully"))
                         /\ issued' = issued \cup {t.at, t.rt}
                         /\ registered' = registered \cup
                                            {[email |-> r.email, password |-> r.password, uid |-> nextId]}
  /\ UNCHANGED <<variant, attach, now, redis, dbTokens, nreq, rotated, revoked, linked>>

RegisterStore(i) ==
  /\ alive
  /\ slots[i].pc = "reg_store"
  /\ LET r == slots[i] IN
       \/ /\ Rethrow(i, Outage(r), StoreDown)
          /\ UNCHANGED <<redis, dbTokens, issued, registered>>
       \/ IF ForeignKeyViolation(r.uid)
          THEN /\ Rethrow(i, r, "P2003")
               /\ UNCHANGED <<redis, dbTokens, issued, registered>>
          ELSE /\ StorePut(r.uid, r.rt)
               /\ Reply(i, RespondTokens(r, 201, "User registered successfully"))
               /\ alive' = alive
               /\ issued' = issued \cup {r.at, r.rt}
               /\ registered' = registered \cup
                                  {[email |-> r.email, password |-> r.password, uid |-> r.uid]}
  /\ UNCHANGED <<variant, attach, now, users, nextId, nreq, rotated, revoked, linked>>

\* ------------------------------------------------------------------- login
\* why a login is turned down, "ok" when it is not
LoginCheck(e, p) ==
  LET u == FindByEmail(e) IN
    IF u = 0 THEN "unknown"
    ELSE IF users[u].passwordHash = NoHash THEN "nohash"
    ELSE IF ~comparePassword(p, users[u].passwordHash) THEN "wrongpw"
    ELSE "ok"

\* a rejection that tells an unknown email from a wrong password
LoginRejectLeaky(r, why) ==
  IF why = "unknown"
  THEN Respond(r, 404, "User not found")
  ELSE Respond(r, 401, "Invalid credentials")

\* the response of a login that is turned down
LoginReject(r, why) == Respond(r, 401, "Invalid credentials")

\* a rejection that drops the refresh record of the account it was aimed at
LoginRejectRevokes(u) ==
  /\ redis' = IF u # 0 /\ variant = "cache" THEN RedisDel(u) ELSE redis
  /\ dbTokens' = IF u # 0 /\ Durable THEN TokenDeleteMany(u) ELSE dbTokens
  /\ UNCHANGED <<users, nextId, issued, rotated, revoked, registered, linked>>

\* the stores after a login aimed at user u (0: none) is turned down
LoginRejectEffect(u) ==
  UNCHANGED <<users, nextId, redis, dbTokens, issued, rotated, revoked, registered, linked>>

\* what holds of a login's input when it arrives: "registered", a register with
\* this email and password has succeeded and its account is not deleted;
\* "sameEmail", that account still has this email
Registration(e, p) ==
  {t \in {"registered", "sameEmail"} :
     \E g \in registered :
        /\ g.email = e /\ g.password = p /\ g.uid \in DOMAIN users
        /\ t = "sameEmail" => users[g.uid].email = e}

\* findUnique({email}), comparePassword, generateTokenPair
LoginFind(i, e, p) ==
  /\ CanStart(i)
  /\ nreq' = nreq + 1
  /\ LET why == LoginCheck(e, p)
         u   == FindByEmail(e)
         r   == [NewReq(i, "login", e, p, "", "none", NoToken) EXCEPT
                    !.why = why, !.uid = u, !.pre = Registration(e, p)]
     IN \/ /\ Rethrow(i, Outage([r EXCEPT !.why = "", !.uid = 0]), StoreDown)
           /\ UNCHANGED <<users, nextId, redis, dbTokens, issued, rotated, revoked, registered, linked>>
        \/ /\ alive' = alive
           /\ IF why # "ok"
              THEN /\ Reply(i, LoginReject(r, why))
                   /\ LoginRejectEffect(u)
              ELSE LET t == WithTokens(r, u, users[u].email) IN
                   /\ UNCHANGED <<users, nextId, redis, dbTokens, rotated, registered>>
                   /\ IF Stateful
                      THEN /\ Proceed(i, [t EXCEPT !.pc = "login_store"])
                           /\ UNCHANGED <<issued, revoked>>
                      ELSE /\ Reply(i, RespondTokens(t, 200, "Login successful"))
                           /\ issued' = issued \cup {t.at, t.rt}
                           /\ revoked' = revoked
  /\ UNCHANGED <<variant, attach, now, linked>>

LoginStore(i) ==
  /\ alive
  /\ slots[i].pc = "login_store"
  /\ LET r == slots[i] IN
       \/ /\ Rethrow(i, Outage(r), StoreDown)
          /\ UNCHANGED <<redis, dbTokens, issued, revoked>>
       \/ IF ForeignKeyViolation(r.uid)
          THEN /\ Rethrow(i, r, "P2003")
               /\ UNCHANGED <<redis, dbTokens, issued, revoked>>
          ELSE /\ StorePut(r.uid, r.rt)
               /\ Reply(i, RespondTokens(r, 200, "Login successful"))
               /\ alive' = alive
               /\ issued' = issued \cup {r.at, r.rt}
               /\ revoked' = revoked \ TokensOf(r.uid)
  /\ UNCHANGED <<variant, attach, now, users, nextId, nreq, rotated, registered, linked>>

\* ----------------------------------------------------------------- refresh
\* the catch block of refreshToken and logout: 401, or next(error)
RefreshCatch(i, r, err, body) ==
  IF variant \in {"cache", "durable"}
  THEN Reply(i, Respond(r, 401, body)) /\ alive' = alive
  ELSE NextError(i, r, err)

\* the stored token is the presented one: redis get and compare, or findFirst
StoreHolds(uid, tok) ==
  IF variant = "cache"
  THEN RedisGet(uid) # NoToken /\ RedisGet(uid) = tok
  ELSE TokenFindFirst(uid, tok)

\* verifyRefreshToken, the type check, the store lookup, generateTokenPair
RefreshCheck(i, tok) ==
  /\ CanStart(i)
  /\ nreq' = nreq + 1
  /\ LET r == [NewReq(i, "refresh", "", "", "", "none", tok) EXCEPT
                  !.pre = {t \in {"signed", "unexpired", "refresh", "rotated", "revoked", "live"} :
                             \/ t = "signed" /\ tok.key = "JWT_REFRESH_SECRET"
                             \/ t = "unexpired" /\ now < tok.exp
                             \/ t = "refresh" /\ tok.type = "refresh"
                             \/ t = "rotated" /\ tok \in rotated
                             \/ t = "revoked" /\ tok \in revoked
                             \/ t = "live" /\ Stateful /\ tok.userId \in 1..MaxUsers
                                           /\ StoreHolds(tok.userId, tok)}]
         v == verifyRefreshToken(tok)
     IN IF v # "ok"
        THEN /\ RefreshCatch(i, r, v, "Invalid refresh token")
             /\ UNCHANGED <<issued, rotated>>
        ELSE IF tok.type # "refresh"
        THEN /\ Reply(i, Respond(r, 401, "Invalid token type"))
             /\ UNCHANGED <<alive, issued, rotated>>
        ELSE IF ~Stateful
        THEN LET t == WithTokens(r, tok.userId, tok.email) IN
             /\ Reply(i, RespondTokens(t, 200, "Token refreshed successfully"))
             /\ issued' = issued \cup {t.at, t.rt}
             /\ rotated' = rotated \cup {tok}
             /\ alive' = alive
        ELSE \/ /\ RefreshCatch(i, Outage(r), StoreDown, "Invalid refresh token")
                /\ UNCHANGED <<issued, rotated>>
             \/ /\ IF ~StoreHolds(tok.userId, tok)
                   THEN Reply(i, Respond(r, 401, "Invalid refresh token"))
                   ELSE Proceed(i, [WithTokens(r, tok.userId, tok.email) EXCEPT
                                      !.pc = IF variant = "cache" THEN "ref_set" ELSE "ref_delete"])
                /\ UNCHANGED <<alive, issued, rotated>>
  /\ UNCHANGED <<variant, attach, now, users, nextId, redis, dbTokens, revoked, registered, linked>>

\* redisClient.setEx of the new refresh token
RefreshSet(i) ==
  /\ alive
  /\ slots[i].pc = "ref_set"
  /\ LET r == slots[i] IN
       \/ /\ RefreshCatch(i, Outage(r), StoreDown, "Invalid refresh token")
          /\ UNCHANGED <<redis, issued, rotated>>
       \/ /\ redis' = RedisSetEx(r.uid, r.rt)
          /\ Reply(i, RespondTokens(r, 200, "Token refreshed successfully"))
          /\ alive' = alive
          /\ issued' = issued \cup {r.at, r.rt}
          /\ rotated' = rotated \cup {r.tok}
  /\ UNCHANGED <<variant, attach, now, users, nextId, dbTokens, nreq, revoked, registered, linked>>

\* refreshToken.deleteMany({userId})
RefreshDelete(i) ==
  /\ alive
  /\ slots[i].pc = "ref_delete"
  /\ \/ /\ RefreshCatch(i, Outage(slots[i]), StoreDown, "Invalid refresh token")
        /\ dbTokens' = dbTokens
     \/ /\ dbTokens' = TokenDeleteMany(slots[i].uid)
        /\ Step(i, [slots[i] EXCEPT !.pc = "ref_create"])
        /\ alive' = alive
  /\ UNCHANGED <<variant, attach, now, users, nextId, redis, nreq,
                 issued, rotated, revoked, registered, linked>>

\* refreshToken.create of the new refresh token
RefreshCreate(i) ==
  /\ alive
  /\ slots[i].pc = "ref_create"
  /\ LET r == slots[i] IN
       \/ /\ RefreshCatch(i, Outage(r), StoreDown, "Invalid refresh token")
          /\ UNCHANGED <<dbTokens, issued, rotated>>
       \/ IF ForeignKeyViolation(r.uid)
          THEN /\ RefreshCatch(i, r, "P2003", "Invalid refresh token")
               /\ UNCHANGED <<dbTokens, issued, rotated>>
          ELSE /\ dbTokens' = TokenCreate(r.uid, r.rt)
               /\ Reply(i, RespondTokens(r, 200, "Token refreshed successfully"))
               /\ alive' = alive
               /\ issued' = issued \cup {r.at, r.rt}
               /\ rotated' = rotated \cup {r.tok}
  /\ UNCHANGED <<variant, attach, now, users, nextId, redis, nreq, revoked, registered, linked>>

\* ------------------------------------------------------------------ logout
\* a logout that leaves the record where it is
StoreRevokeNothing(uid) == UNCHANGED <<redis, dbTokens>>

\* a logout that clears the records of every subject
StoreRevokeAll(uid) ==
  IF variant = "cache"
  THEN redis' = [id \in 1..MaxUsers |-> NoEntry] /\ dbTokens' = dbTokens
  ELSE dbTokens' = {} /\ redis' = redis

\* the refresh record of the subject is removed: redis del, or deleteMany
StoreRevoke(uid) ==
  IF variant = "cache"
  THEN redis' = RedisDel(uid) /\ dbTokens' = dbTokens
  ELSE dbTokens' = TokenDeleteMany(uid) /\ redis' = redis

Logout(i, hdr, tok) ==
  /\ CanStart(i)
  /\ nreq' = nreq + 1
  /\ LET r == [NewReq(i, "logout", "", "", "", hdr, tok) EXCEPT
                  !.pre = {t \in {"unexpired", "revoked"} :
                             \/ t = "unexpired" /\ now < tok.exp
                             \/ t = "revoked" /\ tok \in revoked}]
         v == verifyRefreshToken(tok)
     IN IF hdr # "bearer"
        THEN /\ Reply(i, Respond(r, 401, "Access token required"))
             /\ UNCHANGED <<alive, redis, dbTokens, revoked>>
        ELSE IF ~Stateful
        THEN /\ Reply(i, Respond(r, 200, "Logout successful"))
             /\ UNCHANGED <<alive, redis, dbTokens>>
             /\ revoked' = IF tok \in issued THEN revoked \cup TokensOf(tok.userId) ELSE revoked
        ELSE IF v # "ok"
        THEN /\ RefreshCatch(i, r, v, "Invalid token")
             /\ UNCHANGED <<redis, dbTokens, revoked>>
        ELSE \/ /\ RefreshCatch(i, Outage(r), StoreDown, "Invalid token")
                /\ UNCHANGED <<redis, dbTokens, revoked>>
             \/ /\ StoreRevoke(tok.userId)
                /\ Reply(i, Respond([r EXCEPT !.uid = tok.userId], 200, "Logout successful"))
                /\ alive' = alive
                /\ revoked' = revoked \cup TokensOf(tok.userId)
  /\ UNCHANGED <<variant, attach, now, users, nextId, issued, rotated, registered, linked>>

\* -------------------------------------------------- authentication middleware
\* a gate that verifies the signature only (ignoreExpiration)
authenticateIgnoreExpiration(hdr, tok) ==
  IF hdr # "bearer"
  THEN [status |-> 401, body |-> "Access token required", next |-> 0]
  ELSE IF tok.key # "JWT_SECRET"
  THEN [status |-> 401, body |-> "Invalid token", next |-> 0]
  ELSE IF tok.type # "access"
  THEN [status |-> 401, body |-> "Invalid token type", next |-> 0]
  ELSE IF tok.userId \notin DOMAIN users
  THEN [status |-> 401, body |-> "User not found", next |-> 0]
  ELSE [status |-> 0, body |-> "", next |-> 1]

\* a gate that answers a missing subject like a bad token
authenticateGenericMissing(hdr, tok) ==
  IF hdr # "bearer"
  THEN [status |-> 401, body |-> "Access token required", next |-> 0]
  ELSE IF verifyAccessToken(tok) # "ok" \/ (tok.type = "access" /\ tok.userId \notin DOMAIN users)
  THEN [status |-> 401, body |-> "Invalid token", next |-> 0]
  ELSE IF tok.type # "access"
  THEN [status |-> 401, body |-> "Invalid token type", next |-> 0]
  ELSE [status |-> 0, body |-> "", next |-> 1]

\* what authenticate does with the Authorization header: the response it sends
\* (status 0: none) and how often it calls next()
authenticate(hdr, tok) ==
  IF hdr # "bearer"
  THEN [status |-> 401, body |-> "Access token required", next |-> 0]
  ELSE IF verifyAccessToken(tok) # "ok"
  THEN [status |-> 401, body |-> "Invalid token", next |-> 0]
  ELSE IF tok.type # "access"
  THEN [status |-> 401, body |-> "Invalid token type", next |-> 0]
  ELSE IF tok.userId \notin DOMAIN users
  THEN [status |-> 401, body |-> "User not found", next |-> 0]
  ELSE [status |-> 0, body |-> "", next |-> 1]

\* what holds of a request's credential when it arrives
Credential(hdr, tok) ==
  {t \in {"bearer", "signed", "unexpired", "access", "exists", "deleted"} :
     \/ t = "bearer" /\ hdr = "bearer"
     \/ t = "signed" /\ tok.key = "JWT_SECRET"
     \/ t = "unexpired" /\ now < tok.exp
     \/ t = "access" /\ tok.type = "access"
     \/ t = "exists" /\ tok.userId \in DOMAIN users
     \/ t = "deleted" /\ tok.userId \in (1..(nextId - 1)) \ DOMAIN users}

\* the first store call of each handler behind the middleware
HandlerEntry(op, e, uemail) ==
  CASE op = "getProfile" -> "h_get"
    [] op = "deleteAccount" -> "h_delete"
    [] op = "updateProfile" -> IF e # uemail THEN "h_upd_find" ELSE "h_upd_write"

\* a request to a route behind router.use(authenticate): the middleware, then
\* the handler up to its first store call; a handler that finds its field unset
\* throws a TypeError on reading it
Protected(i, op, e, hdr, tok) ==
  /\ CanStart(i)
  /\ nreq' = nreq + 1
  /\ LET g == authenticate(hdr, tok)
         r == [NewReq(i, op, e, "", "", hdr, tok) EXCEPT
                  !.pre = Credential(hdr, tok), !.gate = g.status, !.invoked = g.next]
     IN \/ /\ hdr = "bearer" /\ verifyAccessToken(tok) = "ok" /\ tok.type = "access"
           /\ Reply(i, Respond(Outage([r EXCEPT !.gate = 401, !.invoked = 0]), 401, "Invalid token"))
           /\ alive' = alive
        \/ IF g.next = 0
           THEN Reply(i, Respond(r, g.status, g.body)) /\ alive' = alive
           ELSE IF attach # HandlerField
           THEN AsyncThrow(i, r, "Cannot read properties of undefined")
           ELSE /\ Proceed(i, [r EXCEPT !.uid = tok.userId, !.uemail = users[tok.userId].email,
                                        !.pc = HandlerEntry(op, e, users[tok.userId].email)])
                /\ alive' = alive
  /\ UNCHANGED <<variant, attach, now, users, nextId, redis, dbTokens,
                 issued, rotated, revoked, registered, linked>>

\* getProfile: findUnique({id})
GetProfile(i) ==
  /\ alive
  /\ slots[i].pc = "h_get"
  /\ LET r == slots[i] IN
       IF r.uid \notin DOMAIN users
       THEN Reply(i, Respond(r, 404, "User not found"))
       ELSE Reply(i, Respond(r, 200, "user"))
  /\ UNCHANGED <<variant, attach, alive, now, users, nextId, redis, dbTokens, nreq,
                 issued, rotated, revoked, registered, linked>>

\* deleteAccount: user.delete({id}); the refreshToken rows go with the user
DeleteAccount(i) ==
  /\ alive
  /\ slots[i].pc = "h_delete"
  /\ LET r == slots[i] IN
       IF r.uid \notin DOMAIN users
       THEN /\ AsyncThrow(i, r, "P2025")
            /\ UNCHANGED <<users, dbTokens>>
       ELSE /\ users' = UserDelete(r.uid)
            /\ dbTokens' = TokenDeleteMany(r.uid)
            /\ Reply(i, Respond(r, 200, "Account deleted successfully"))
            /\ alive' = alive
  /\ UNCHANGED <<variant, attach, now, nextId, redis, nreq, issued, rotated, revoked, registered, linked>>

\* updateProfile: findUnique({email}) when the email changes
UpdateFind(i) ==
  /\ alive
  /\ slots[i].pc = "h_upd_find"
  /\ LET r == slots[i] IN
       IF FindByEmail(r.email) # 0
       THEN Reply(i, Respond(r, 409, "Email already in use"))
       ELSE Step(i, [r EXCEPT !.pc = "h_upd_write"])
  /\ UNCHANGED <<variant, attach, alive, now, users, nextId, redis, dbTokens, nreq,
                 issued, rotated, revoked, registered, linked>>

\* updateProfile: user.update({id}, {email})
UpdateWrite(i) ==
  /\ alive
  /\ slots[i].pc = "h_upd_write"
  /\ LET r == slots[i] IN
       IF r.uid \notin DOMAIN users
       THEN /\ AsyncThrow(i, r, "P2025")
            /\ users' = users
       ELSE IF UniqueViolation(r.uid, r.email, "")
       THEN /\ AsyncThrow(i, r, "P2002")
            /\ users' = users
       ELSE /\ users' = [users EXCEPT ![r.uid].email = r.email]
            /\ Reply(i, Respond(r, 200, "Profile updated successfully"))
            /\ alive' = alive
  /\ UNCHANGED <<variant, attach, now, nextId, redis, dbTokens, nreq,
                 issued, rotated, revoked, registered, linked>>

\* ----------------------------------------------------------- Google sign-in
\* passport.authenticate's callback on a strategy error: 500
GoogleFail(i, r) ==
  /\ Reply(i, Respond(r, 500, "Authentication failed"))
  /\ alive' = alive

\* a verify callback that takes a profile without an email for usable
UsableEmailAlways(e) == TRUE

\* profile.emails?.[0]?.value is there
UsableEmail(e) == e # ""

\* the verify callback has resolved provider id g to user u
Resolve(g, u) == [linked EXCEPT ![g] = IF linked[g] = 0 THEN u ELSE linked[g]]

\* the strategy's verify callback: the profile's email, then findUnique({googleId});
\* a user found is handed to googleCallback, which signs the token pair
GoogleStart(i, g, e) ==
  /\ Durable
  /\ CanStart(i)
  /\ nreq' = nreq + 1
  /\ LET r == [NewReq(i, "google", e, "", g, "none", NoToken) EXCEPT !.was = linked[g]]
         u == FindByGoogleId(g)
     IN IF ~UsableEmail(e)
        THEN GoogleFail(i, r) /\ linked' = linked
        ELSE IF u # 0
        THEN /\ Proceed(i, [WithTokens(r, u, users[u].email) EXCEPT !.pc = "g_store", !.why = "byId"])
             /\ alive' = alive
             /\ linked' = Resolve(g, u)
        ELSE /\ Proceed(i, [r EXCEPT !.pc = "g_email"])
             /\ alive' = alive
             /\ linked' = linked
  /\ UNCHANGED <<variant, attach, now, users, nextId, redis, dbTokens,
                 issued, rotated, revoked, registered>>

\* findUnique({email}), for account linking
GoogleByEmail(i) ==
  /\ alive
  /\ slots[i].pc = "g_email"
  /\ LET r == slots[i]
         u == FindByEmail(r.email)
     IN IF u # 0
        THEN Step(i, [r EXCEPT !.pc = "g_link", !.uid = u, !.why = "link"])
        ELSE Step(i, [r EXCEPT !.pc = "g_create", !.why = "create"])
  /\ UNCHANGED <<variant, attach, alive, now, users, nextId, redis, dbTokens, nreq,
                 issued, rotated, revoked, registered, linked>>

\* user.update({id}, {googleId})
GoogleLink(i) ==
  /\ alive
  /\ slots[i].pc = "g_link"
  /\ LET r == slots[i] IN
       IF r.uid \notin DOMAIN users \/ UniqueViolation(r.uid, users[r.uid].email, r.gid)
       THEN /\ GoogleFail(i, r)
            /\ UNCHANGED <<users, linked>>
       ELSE /\ users' = UserLink(r.uid, r.gid)
            /\ Step(i, [WithTokens(r, r.uid, users[r.uid].email) EXCEPT !.pc = "g_store"])
            /\ alive' = alive
            /\ linked' = Resolve(r.gid, r.uid)
  /\ UNCHANGED <<variant, attach, now, nextId, redis, dbTokens, nreq,
                 issued, rotated, revoked, registered>>

\* user.create({googleId, email, name, passwordHash: null})
GoogleCreate(i) ==
  /\ alive
  /\ slots[i].pc = "g_create"
  /\ LET r == slots[i] IN
       IF UniqueViolation(0, r.email, r.gid)
       THEN /\ GoogleFail(i, r)
            /\ UNCHANGED <<users, nextId, linked>>
       ELSE /\ nextId <= MaxUsers
            /\ users' = UserCreate(nextId, r.email, NoHash, r.gid)
            /\ nextId' = nextId + 1
            /\ Step(i, [WithTokens(r, nextId, r.email) EXCEPT !.pc = "g_store"])
            /\ alive' = alive
            /\ linked' = Resolve(r.gid, nextId)
  /\ UNCHANGED <<variant, attach, now, redis, dbTokens, nreq, issued, rotated, revoked, registered>>

\* googleCallback: refreshToken.create, then the redirect carrying the tokens
GoogleStore(i) ==
  /\ alive
  /\ slots[i].pc = "g_store"
  /\ LET r == slots[i] IN
       IF ForeignKeyViolation(r.uid)
       THEN /\ Reply(i, Respond(r, 500, "Token generation failed"))
            /\ UNCHANGED <<dbTokens, issued, revoked>>
       ELSE /\ dbTokens' = TokenCreate(r.uid, r.rt)
            /\ Reply(i, RespondTokens(r, 302, "/auth/callback"))
            /\ issued' = issued \cup {r.at, r.rt}
            /\ revoked' = revoked \ TokensOf(r.uid)
  /\ UNCHANGED <<variant, attach, alive, now, users, nextId, redis, nreq, rotated, registered, linked>>

\* ------------------------------------------------------------------ inputs
\* express-validator's normalizeEmail(): the address in lower case
normalizeEmail(e) == IF e = "A@x.io" THEN "a@x.io" ELSE e

\* req.body.email as register and login get it, behind validateRegister and
\* validateLogin
ValidatedEmails == {normalizeEmail(e) : e \in RawEmails}

\* a client presents a token it was handed, or one it made up
RefreshInputs == issued \cup {Forged}

\* the Authorization header: absent, not a Bearer header, or Bearer <token>
Credentials ==
  {<<"none", NoToken>>, <<"malformed", NoToken>>} \cup {<<"bearer", t>> : t \in issued \cup {Forged}}

AccessTokens == {t \in issued : t.type = "access"}

\* the profiles Google asserts: a provider id and the email of the account,
\* as Google spells it, or none
GoogleProfiles ==
  {<<"g-1", "a@x.io">>, <<"g-1", "b@x.io">>, <<"g-1", "">>,
   <<"g-2", "a@x.io">>, <<"g-2", "A@x.io">>}

ProtectedInputs ==
  {<<"getProfile", "", c[1], c[2]>> : c \in Credentials}
    \cup {<<"deleteAccount", "", "bearer", t>> : t \in AccessTokens}
    \cup {<<"updateProfile", e, "bearer", t>> : e \in RawEmails, t \in AccessTokens}

Next ==
  \/ Tick
  \/ \E i \in Slots, e \in ValidatedEmails, p \in NewPasswords : RegisterFind(i, e, p)
  \/ \E i \in Slots : RegisterCreate(i)
  \/ \E i \in Slots : RegisterStore(i)
  \/ \E i \in Slots, e \in ValidatedEmails, p \in Passwords : LoginFind(i, e, p)
  \/ \E i \in Slots : LoginStore(i)
  \/ \E i \in Slots, tok \in RefreshInputs : RefreshCheck(i, tok)
  \/ \E i \in Slots : RefreshSet(i)
  \/ \E i \in Slots : RefreshDelete(i)
  \/ \E i \in Slots : RefreshCreate(i)
  \/ \E i \in Slots, c \in Credentials : Logout(i, c[1], c[2])
  \/ \E i \in Slots, q \in ProtectedInputs : Protected(i, q[1], q[2], q[3], q[4])
  \/ \E i \in Slots : GetProfile(i)
  \/ \E i \in Slots : DeleteAccount(i)
  \/ \E i \in Slots : UpdateFind(i)
  \/ \E i \in Slots : UpdateWrite(i)
  \/ \E i \in Slots, q \in GoogleProfiles : GoogleStart(i, q[1], q[2])
  \/ \E i \in Slots : GoogleByEmail(i)
  \/ \E i \in Slots : GoogleLink(i)
  \/ \E i \in Slots : GoogleCreate(i)
  \/ \E i \in Slots : GoogleStore(i)

Spec == Init /\ [][Next]_vars
\* ================================================================== claims
ProtectedOps == {"getProfile", "deleteAccount", "updateProfile"}

NoTokens(r) == r.at = NoToken /\ r.rt = NoToken

\* C1: in the durable-record and expiring-cache strategies the token store
\* never holds more than one live (unexpired) refresh record of a subject.
C1_AtMostOneLiveRecord ==
  Stateful => \A u \in 1..MaxUsers : Cardinality(LiveRecords(u)) <= 1

\* C2: in the durable-record and expiring-cache strategies, a refresh that
\* presents a token an earlier, answered refresh has already rotated gets
\* 401 and no tokens.
C2_NoReplayAfterRotation ==
  (Stateful /\ last.op = "refresh" /\ "rotated" \in last.pre)
    => (last.status = 401 /\ NoTokens(last))

\* C3: of two overlapping refreshes that present the same live refresh token,
\* exactly one is answered 200 and the other 401, and the store then holds
\* exactly one record of the subject.
C3_ConcurrentRefreshOneWinner ==
  (Stateful /\ last.op = "refresh" /\ "live" \in last.pre /\ last.peer \notin {0, 1})
    => /\ {last.status, last.peer} = {200, 401}
       /\ (last.status = 200 /\ now < last.rt.exp) => Cardinality(LiveRecords(last.tok.userId)) = 1

\* C4: in the durable-record and expiring-cache strategies, a refresh that
\* presents a token handed to the subject before its last successful logout,
\* the subject not having logged in since, gets 401.
C4_NoRefreshAfterLogout ==
  (Stateful /\ last.op = "refresh" /\ "revoked" \in last.pre)
    => (last.status = 401 /\ NoTokens(last))

\* C5: a login that is turned down gets the same status and body whether the
\* email is unknown, the account has no password hash, or the password is wrong.
C5_LoginRejectionUniform ==
  (last.op = "login" /\ last.why \in {"unknown", "nohash", "wrongpw"})
    => (last.status = 401 /\ last.body = "Invalid credentials")

C5_Witness ==
  /\ last.op = "login" /\ last.why = "nohash"
  /\ last.status = 401
  /\ FindByEmail(last.email) # 0

\* C6: the step that answers a login with 401 carries no tokens, hands none
\* out, and leaves the user table and both token stores as they were.
C6_FailedLoginNoEffect ==
  [][(/\ nreq' = nreq + 1
      /\ \A i \in Slots : slots'[i].pc = slots[i].pc
      /\ last'.op = "login" /\ last'.status = 401)
       => (/\ NoTokens(last')
           /\ issued' = issued
           /\ users' = users
           /\ redis' = redis
           /\ dbTokens' = dbTokens)]_vars

C6_Witness ==
  /\ Stateful
  /\ last.op = "login" /\ last.why = "wrongpw" /\ last.status = 401
  /\ last.uid # 0 /\ LiveRecords(last.uid) # {}

\* the gate lets this access token through
GateAccepts(tok) == authenticate("bearer", tok) = [status |-> 0, body |-> "", next |-> 1]

\* a login's access token belongs to the account its email and password registered
ResolvesToRegistered(r) ==
  \E g \in registered :
     g.email = r.email /\ g.password = r.password /\ g.uid = r.at.userId

C8_RegisterEmailTaken ==
  /\ (last.op = "register" /\ "taken" \in last.pre)
       => (last.pc = "done" /\ last.status = 409 /\ NoTokens(last))
  /\ \A a, b \in DOMAIN users : users[a].email = users[b].email => a = b

\* what the gate requires of a credential
Acceptable == {"bearer", "signed", "unexpired", "access", "exists"}

\* the gate's outcome for request r: next() once and no response of its own, or
\* a 401 and no call of next(); the former exactly for an acceptable credential
\* whose user lookup is answered
GateOutcome(r) ==
  /\ r.invoked \in {0, 1}
  /\ r.invoked = 1 <=> (Acceptable \subseteq r.pre /\ "outage" \notin r.pre)
  /\ r.invoked = 1 => r.gate = 0
  /\ r.invoked = 0 => (r.gate = 401 /\ r.pc = "done" /\ r.status = 401)

\* C9: every request to a protected route is either accepted (next() called
\* once, no response from the gate) or rejected (401 from the gate, next()
\* never called), and accepted exactly when the header is a Bearer header and
\* the token verifies under the access secret, is unexpired, is an access
\* token and names an existing user the store returns.
C9_GateOutcome ==
  /\ last.op \in ProtectedOps => GateOutcome(last)
  /\ \A i \in Slots : slots[i].op \in ProtectedOps => GateOutcome(slots[i])

C9_Witness ==
  /\ last.op = "getProfile" /\ last.invoked = 1 /\ last.gate = 0
  /\ last.status = 200

AuthOps == {"register", "login", "refresh", "logout"} \cup ProtectedOps

\* C11: a refresh that presents an access token the system issued is answered
\* 401 without tokens, and a protected request that presents a refresh token
\* the system issued is answered 401 by the gate, which does not call next().
C11_TokensOnlyForTheirKind ==
  /\ (last.op = "refresh" /\ last.tok \in issued /\ last.tok.type = "access")
       => (last.pc = "done" /\ last.status = 401 /\ NoTokens(last))
  /\ (/\ last.op \in ProtectedOps /\ last.hdr = "bearer"
      /\ last.tok \in issued /\ last.tok.type = "refresh")
       => (last.invoked = 0 /\ last.gate = 401 /\ last.status = 401)

\* a step that sends a response, which last then holds
Answers ==
  \/ \E i \in Slots : slots[i].pc # "idle" /\ slots'[i].pc = "idle"
  \/ nreq' = nreq + 1 /\ \A i \in Slots : slots'[i].pc = slots[i].pc

\* a step that answers a register, login or refresh with a token pair
AnswersPair == Answers /\ last'.op \in {"register", "login", "refresh"} /\ last'.status \in {200, 201}

\* the store, in state (rd, db), has token tok as the record of subject uid
StoreHas(rd, db, uid, tok) ==
  IF variant = "cache"
  THEN rd[uid].token = tok
  ELSE \E row \in db : row.userId = uid /\ row.token = tok

\* the pair of response r: an access and a refresh token of subject r.uid,
\* each expiring after instant t
PairOf(r, t) ==
  /\ r.at.type = "access" /\ r.rt.type = "refresh"
  /\ r.uid # 0 /\ r.at.userId = r.uid /\ r.rt.userId = r.uid
  /\ r.at.exp > t /\ r.rt.exp > t

C13_LogoutNeverFails ==
  (/\ last.op = "logout" /\ last.hdr = "bearer" /\ last.tok \in issued
   /\ "unexpired" \in last.pre /\ "outage" \notin last.pre)
    => (last.pc = "done" /\ last.status = 200)

\* what refresh requires of the presented token
RefreshAcceptable ==
  {"signed", "unexpired", "refresh"} \cup (IF Stateful THEN {"live"} ELSE {})

\* C14: the gate answers a Bearer token that is badly signed, expired or of
\* the wrong kind with one response, 401 "Invalid token"; refresh answers a
\* token that is badly signed, expired, of the wrong kind or not the stored
\* one with one response, 401 "Invalid refresh token".
C14_AuthFailureGeneric ==
  /\ (/\ last.op \in ProtectedOps /\ last.hdr = "bearer"
      /\ ~({"signed", "unexpired", "access"} \subseteq last.pre))
       => (last.status = 401 /\ last.body = "Invalid token")
  /\ (/\ last.op = "refresh" /\ "outage" \notin last.pre
      /\ ~(RefreshAcceptable \subseteq last.pre))
       => (last.pc = "done" /\ last.status = 401 /\ last.body = "Invalid refresh token")

\* C15: a request to register, login, refresh, logout or a protected route,
\* one of whose store calls throws, is answered, and the process stays up.
C15_StoreFailureKeepsServing ==
  (last.op \in AuthOps /\ "outage" \in last.pre) => (last.pc = "done" /\ alive)

\* C16: a refresh, a logout or a protected request one of whose store calls
\* throws is answered with a 5xx error, not with 401.
C16_StoreFailureNotAuthFailure ==
  (last.op \in {"refresh", "logout"} \cup ProtectedOps /\ "outage" \in last.pre)
    => (last.pc = "done" /\ last.status \in {500, 503})

\* C17: an assertion whose provider id an earlier assertion has resolved to a
\* user S, still in the table, is itself resolved to S by its provider id,
\* without a lookup by email, a link or a new user.
C17_ProviderIdSticks ==
  (/\ last.op = "google" /\ last.was # 0 /\ last.was \in DOMAIN users
   /\ last.email # "" /\ last.pc = "done")
    => (last.uid = last.was /\ last.why = "byId")

\* C18: an assertion whose provider id no user has is looked up by its email.
\* If a user has the email, the one write is that user's googleId and the
\* assertion resolves to that user; otherwise the one write is one new user
\* with the email, the provider id and no password hash, to which it resolves.
\* A write the database refuses changes nothing and fails the assertion.
C18_LinkThenCreate ==
  [][\A i \in Slots :
       LET r == slots[i]
           q == slots'[i]
       IN /\ (r.pc = "idle" /\ q.op = "google" /\ q.pc # "idle")
               => (q.pc = "g_email" <=> FindByGoogleId(q.gid) = 0)
          /\ (r.pc = "g_email" /\ q.pc # "g_email")
               => /\ users' = users
                  /\ IF FindByEmail(r.email) # 0
                     THEN q.pc = "g_link" /\ q.uid = FindByEmail(r.email)
                     ELSE q.pc = "g_create"
          /\ (r.pc = "g_link" /\ q.pc = "g_store")
               => /\ users' = [users EXCEPT ![r.uid].googleId = r.gid]
                  /\ q.uid = r.uid /\ q.at.userId = r.uid /\ q.rt.userId = r.uid
          /\ (r.pc = "g_create" /\ q.pc = "g_store")
               => /\ q.uid \notin DOMAIN users
                  /\ DOMAIN users' = DOMAIN users \cup {q.uid}
                  /\ \A u \in DOMAIN users : users'[u] = users[u]
                  /\ users'[q.uid] = [email |-> r.email, passwordHash |-> NoHash, googleId |-> r.gid]
                  /\ q.at.userId = q.uid /\ q.rt.userId = q.uid
          /\ (r.pc \in {"g_link", "g_create"} /\ q.pc = "idle")
               => (users' = users /\ last'.status = 500 /\ NoTokens(last'))
          /\ (r.pc = "g_store" /\ q.pc = "idle")
               => (users' = users /\ (last'.status = 302 => last'.rt.userId = r.uid))]_vars

C18_Witness ==
  /\ last.op = "google" /\ last.why = "link" /\ last.status = 302
  /\ Cardinality(DOMAIN users) = 1
  /\ users[last.uid].googleId = last.gid /\ users[last.uid].passwordHash # NoHash
  /\ last.rt.userId = last.uid

\* C19: an assertion without an email is answered 500 in the step it arrives
\* in, without tokens, and that step leaves the user table, the token stores,
\* the tokens handed out and the provider ids resolved as they were.
C19_NoEmailHardStop ==
  [][/\ \A i \in Slots : slots'[i].op = "google" => slots'[i].email # ""
     /\ (Answers /\ last'.op = "google" /\ last'.email = "")
          => (/\ last'.status = 500 /\ NoTokens(last') /\ last'.uid = 0
              /\ UNCHANGED <<users, nextId, redis, dbTokens, issued, linked>>)]_vars

C19_Witness ==
  /\ last.op = "google" /\ last.email = "" /\ last.status = 500
  /\ FindByGoogleId(last.gid) # 0

\* C20: the stateless draft never writes a token store, and answers every
\* refresh whose token is a well signed, unexpired refresh token 200 with a
\* new pair of the token's subject, also after a rotation or a logout.
C20_StatelessRefresh ==
  variant = "stateless"
    => /\ redis = [id \in 1..MaxUsers |-> NoEntry]
       /\ dbTokens = {}
       /\ (last.op = "refresh" /\ {"signed", "unexpired", "refresh"} \subseteq last.pre)
            => /\ last.status = 200
               /\ last.at.type = "access" /\ last.rt.type = "refresh"
               /\ last.at.userId = last.tok.userId /\ last.rt.userId = last.tok.userId

C20_Witness ==
  /\ variant = "stateless"
  /\ last.op = "refresh" /\ "revoked" \in last.pre /\ last.status = 200
  /\ last.rt.userId = last.tok.userId

\* an address in lower case, as a case-insensitive comparison sees it
LowerCase(e) == IF e = "A@x.io" THEN "a@x.io" ELSE e

\* C21: no two users have emails that are equal when case is ignored.
C21_EmailUniqueIgnoringCase ==
  \A a, b \in DOMAIN users :
     LowerCase(users[a].email) = LowerCase(users[b].email) => a = b

\* C22: every user has a password hash or a provider id.
C22_HashOrProvider ==
  \A u \in DOMAIN users : users[u].passwordHash # NoHash \/ users[u].googleId # ""

C22_Witness ==
  \E a, b \in DOMAIN users :
     /\ users[a].passwordHash = NoHash /\ users[a].googleId # ""
     /\ users[b].passwordHash # NoHash /\ users[b].googleId = ""

\* the refreshToken rows of subject u
RowsOf(u) == {row \in dbTokens : row.userId = u}

\* C23: in the drafts that keep refreshToken rows, a subject whose refresh is
\* between its delete and its create still has a row, no subject ever has two
\* rows, and a refresh whose create has thrown leaves the presented token's
\* row in place.
C23_AtomicRotation ==
  (variant \in {"durable", "durableNext"})
    => /\ \A i \in Slots : slots[i].pc = "ref_create" => RowsOf(slots[i].uid) # {}
       /\ \A u \in 1..MaxUsers : Cardinality(RowsOf(u)) <= 1
       /\ (last.op = "refresh" /\ "outage" \in last.pre /\ last.uid # 0)
            => StoreHas(redis, dbTokens, last.uid, last.tok)

\* C24: a protected request the gate has accepted reaches its handler, which
\* acts on the subject of the token and the email the gate read for it.
C24_HandlerGetsIdentity ==
  /\ (last.op \in ProtectedOps /\ last.invoked = 1)
       => (last.pc = "done" /\ last.uid = last.tok.userId /\ last.status # 500)
  /\ \A i \in Slots : (slots[i].op \in ProtectedOps /\ slots[i].invoked = 1)
       => slots[i].uid = slots[i].tok.userId

\* C25: a logout whose Bearer token is an unexpired refresh token of a subject
\* that has logged out and not logged in since is answered 200 again, and the
\* subject has no record in the store afterwards, as after the first logout.
C25_LogoutIdempotent ==
  [][(/\ Answers /\ last'.op = "logout" /\ last'.hdr = "bearer"
      /\ {"revoked", "unexpired"} \subseteq last'.pre /\ "outage" \notin last'.pre)
       => (/\ last'.status = 200
           /\ redis'[last'.tok.userId] = NoEntry
           /\ \A row \in dbTokens' : row.userId # last'.tok.userId)]_vars

C25_Witness ==
  /\ variant \in {"cache", "durable"}
  /\ last.op = "logout" /\ "revoked" \in last.pre /\ last.status = 200
  /\ LiveRecords(last.tok.userId) = {}

C27_TokensDistinct ==
  [][/\ (Answers /\ last'.op = "refresh" /\ last'.status = 200) => last'.rt # last'.tok
     /\ (Answers /\ last'.op = "login" /\ last'.status = 200 /\ variant # "stateless")
          => ~StoreHas(redis, dbTokens, last'.uid, last'.rt)]_vars

\* C28: a register that is not answered 201 leaves no user behind.
C28_RegisterAllOrNothing ==
  (last.op = "register" /\ last.status # 201 /\ last.uid # 0) => last.uid \notin DOMAIN users

\* C29: the step that answers a logout leaves the user table and the records
\* of every subject but the token's as they were, and both stores untouched
\* when the answer is not 200.
C29_LogoutOnlyOwnRecord ==
  [][(Answers /\ last'.op = "logout")
       => (/\ users' = users
           /\ \A u \in 1..MaxUsers :
                 u # last'.tok.userId
                   => (redis'[u] = redis[u]
                       /\ {row \in dbTokens' : row.userId = u} = RowsOf(u))
           /\ \A row \in dbTokens' : row \in dbTokens
           /\ last'.status # 200 => (redis' = redis /\ dbTokens' = dbTokens))]_vars

C29_Witness ==
  /\ variant \in {"cache", "durable", "durableNext"}
  /\ last.op = "logout" /\ last.status = 200
  /\ LiveRecords(last.tok.userId) = {}
  /\ \E u \in DOMAIN users : u # last.tok.userId /\ LiveRecords(u) # {}

\* C30: the step that links a provider id to the user found by email changes
\* that user's googleId and nothing else in the user table, and every email
\* and password a login accepted before it, a login accepts after it.
C30_LinkChangesOnlyProvider ==
  [][\A i \in Slots :
       (slots[i].pc = "g_link" /\ slots'[i].pc = "g_store")
         => LET u == slots[i].uid IN
            /\ DOMAIN users' = DOMAIN users
            /\ users'[u].email = users[u].email
            /\ users'[u].passwordHash = users[u].passwordHash
            /\ users'[u].googleId = slots[i].gid
            /\ \A o \in DOMAIN users \ {u} : users'[o] = users[o]
            /\ \A e \in Emails, p \in Passwords :
                  LoginCheck(e, p) = "ok" => LoginCheck(e, p)' = "ok"]_vars

C30_Witness ==
  /\ last.op = "login" /\ last.status = 200 /\ "registered" \in last.pre
  /\ last.uid \in DOMAIN users /\ users[last.uid].googleId # ""
  /\ linked[users[last.uid].googleId] = last.uid

====
